---- MODULE Spec2Model ----
(***************************************************************************)
(* Model of package toolman (toolman.org/base/toolman): registration of    *)
(* shutdown actions and the Shutdown/Abort termination sequence of          *)
(* src/shutdown.go, registration and execution of init functions by         *)
(* RegisterInit/Init of src/init.go, over the package state of init.go.     *)
(*                                                                          *)
(* Durations are nanoseconds, as in time.Duration.                          *)
(***************************************************************************)
EXTENDS Integers, Sequences, FiniteSets, TLC

\* ------------------------------------------------------------------ bounds
\* Number of RegisterShutdown calls made in one behaviour.
MaxRegs == 2
\* Longest option list passed to one RegisterShutdown call.
MaxOpts == 2
\* Number of RegisterInit calls made in one behaviour.
MaxInitRegs == 2

\* ------------------------------------------------------- program constants
\* shutdown.go:76  allowance: 100 * time.Millisecond
DefaultAllowance == 100000000

\* Durations passed to TimeAllowance by callers (7ns, so that the integer
\* division of the fudge factor truncates).
Durations == {7}

\* The host goroutine calling the package API.
Threads == {"t1"}
\* "sig" is the goroutine on which the signals package runs the handler
\* installed by ShutdownOn; "bg" is the goroutine started by shutdown().
Procs == Threads \cup {"sig", "bg"}

Messages == {"", "fatal"}

VARIABLES
    downactions,  \* init.go:192   []*shutdownAction
    finalized,    \* init.go:190
    downmutex,    \* init.go:194   "none" or the goroutine holding it
    pc,           \* position of every goroutine
    call,         \* arguments of the call a goroutine is executing
    bgi,          \* shutdown.go:145  loop variable i (1-based here)
    done,         \* shutdown.go:138  TRUE once the channel is closed
    tout,         \* shutdown.go:153  "unset", "armed" or "fired"
    ta,           \* shutdown.go:130  duration given to time.After
    exited,       \* "no", "exit" (os.Exit) or "crash" (unrecovered panic)
    exitcode,     \* argument of os.Exit
    stderr,       \* lines written to os.Stderr by shutdown()
    sigreg,       \* TRUE once ShutdownOn installed its handler
    invoked,      \* history: downFunc ids in order of invocation
    nextId,       \* history: next fresh ShutdownFunc identity
    late,         \* history: ids passed to RegisterShutdown while finalized
    rejected,     \* history: ids for which the error was logged
    returned,     \* history: goroutines whose shutdown() call returned
    runs,         \* history: number of times finalized was set
    winner,       \* history: call that set finalized
    running,      \* history: number of callbacks called and not yet returned
    initialized,  \* init.go:189
    initfuncs,    \* init.go:191   []InitFunc (identities)
    initmutex,    \* init.go:193   "none" or the goroutine holding it
    initpos,      \* position of the Init call that holds initmutex
    initi,        \* init.go:239   index of the range loop
    initinvoked,  \* history: InitFunc ids in order of invocation
    nextInit,     \* history: next fresh InitFunc identity
    lateInit,     \* history: ids passed to RegisterInit after Init ended
    rejectedInit, \* history: ids for which RegisterInit logged the error
    initruns,     \* history: number of Init calls that passed the guard
    initended     \* history: "no", "returned" or "panicked" (first Init)

initvars == <<initialized, initfuncs, initmutex, initpos, initi, initinvoked,
              nextInit, lateInit, rejectedInit, initruns, initended>>

vars == <<downactions, finalized, downmutex, pc, call, bgi, done, tout, ta,
          exited, exitcode, stderr, sigreg, invoked, nextId, late, rejected,
          returned, runs, winner, running, initvars>>

\* ------------------------------------------------------------- options
OnShutdown == [kind |-> "OnShutdown", dur |-> 0]
OnAbort == [kind |-> "OnAbort", dur |-> 0]
TimeAllowance(d) == [kind |-> "TimeAllowance", dur |-> d]

Options == {OnShutdown, OnAbort} \cup {TimeAllowance(d) : d \in Durations}

SeqsUpTo(S, n) == UNION {[1..k -> S] : k \in 0..n}

\* o(sa) for one ShutdownOption o
ApplyOption(o, sa) ==
    CASE o.kind = "OnShutdown" -> [sa EXCEPT !.onShutdown = TRUE]
      [] o.kind = "OnAbort" -> [sa EXCEPT !.onAbort = TRUE]
      [] o.kind = "TimeAllowance" -> [sa EXCEPT !.allowance = o.dur]

\* for _, o := range opts { o(sa) }
RECURSIVE ApplyOpts(_, _)
ApplyOpts(opts, sa) ==
    IF opts = <<>> THEN sa
    ELSE ApplyOpts(Tail(opts), ApplyOption(Head(opts), sa))

\* if !sa.onAbort && !sa.onShutdown { both = true }
DefaultScopeAlways(sa) == [sa EXCEPT !.onAbort = TRUE, !.onShutdown = TRUE]
DefaultScope(sa) ==
    IF ~sa.onAbort /\ ~sa.onShutdown
    THEN [sa EXCEPT !.onAbort = TRUE, !.onShutdown = TRUE]
    ELSE sa

\* the shutdownAction RegisterShutdown(sdf, opts...) appends
NewAction(sdf, opts) ==
    DefaultScope(ApplyOpts(opts,
        [downFunc |-> sdf, allowance |-> DefaultAllowance,
         onAbort |-> FALSE, onShutdown |-> FALSE]))

\* downactions = append(downactions, sa)
AppendActionInFront(acts, sa) == <<sa>> \o acts
AppendAction(acts, sa) == Append(acts, sa)

\* ------------------------------------------------------------- shutdown
\* Shutdown() is shutdown(0, ""), Abort(mesg) is shutdown(1, mesg)
ExitCodeOfSwapped(op) == IF op = "Shutdown" THEN 1 ELSE 0
ExitCodeOf(op) == IF op = "Shutdown" THEN 0 ELSE 1

\* for _, da := range downactions { ta += da.allowance }
RECURSIVE SumAllowances(_)
SumAllowances(acts) ==
    IF acts = <<>> THEN 0
    ELSE Head(acts).allowance + SumAllowances(Tail(acts))

\* ta += ta / 5
Fudge(s) == s + (s \div 5)

Budget(acts) == Fudge(SumAllowances(acts))

\* i := len(downactions) - 1   (indices are 1-based here)
FirstIndexSkipsLast(acts) == Len(acts) - 1
FirstIndex(acts) == Len(acts)

\* i--
NextIndex(i) == i - 1

\* sync.Mutex: Lock() proceeds only when nobody holds the mutex
LockFreeAlways(m) == TRUE
LockFree(m) == m = "none"

\* select { case <-done: case <-tout: }
SelectReadyNoWait(d, t) == TRUE
SelectReadyDoneOnly(d, t) == d
SelectReady(d, t) == d \/ t = "fired"

\* identities of the two ShutdownFuncs Init registers itself: the removal of
\* the PID file (features.go:126) and the log flush (init.go:237)
PidFileFunc == MaxRegs + 1
LogFlushFunc == MaxRegs + 2

\* where a call of this package returns to: the callback for the shutdown
\* goroutine, the body of Init or the running InitFunc for the goroutine
\* inside Init, the host program otherwise
Home(p) ==
    IF p = "bg" THEN "in_cb"
    ELSE IF initmutex = p THEN (IF initpos = "f" THEN "in_f" ELSE "in_init")
    ELSE "idle"

\* the goroutine executes code of the host program: its main line, an
\* InitFunc or a ShutdownFunc
AtUserCode(p) == pc[p] \in {"idle", "in_f", "in_cb"}

\* if initialized { panic("toolman.Init() called multiple times!") }
InitCalledBeforeNever(inited) == FALSE
InitCalledBefore(inited) == inited

\* for _, f := range initfuncs: the next index
NextInitFuncSkips(i) == i + 2
NextInitFunc(i) == i + 1

\* if initialized { log; return }; initfuncs = append(initfuncs, f)
RegisterInitNoGuard(inited, funcs, f) == Append(funcs, f)
RegisterInitOutcome(inited, funcs, f) ==
    IF inited THEN funcs ELSE Append(funcs, f)

\* arguments of a call: f and opts of RegisterShutdown/RegisterInit, code and
\* mesg of shutdown(), the StandardSignals and PIDFile options of Init
NoCall == [op |-> "none", f |-> 0, opts |-> <<>>, code |-> 0, mesg |-> "",
           stdsigs |-> FALSE, pidfile |-> FALSE]

Alive == exited = "no"

Init ==
    /\ downactions = <<>>
    /\ finalized = FALSE
    /\ downmutex = "none"
    /\ pc = [p \in Procs |-> IF p = "bg" THEN "none" ELSE "idle"]
    /\ call = [p \in Procs |-> NoCall]
    /\ bgi = 0
    /\ done = FALSE
    /\ tout = "unset"
    /\ ta = 0
    /\ exited = "no"
    /\ exitcode = 0
    /\ stderr = <<>>
    /\ sigreg = FALSE
    /\ invoked = <<>>
    /\ nextId = 1
    /\ late = {}
    /\ rejected = {}
    /\ returned = {}
    /\ runs = 0
    /\ winner = NoCall
    /\ running = 0
    /\ initialized = FALSE
    /\ initfuncs = <<>>
    /\ initmutex = "none"
    /\ initpos = "none"
    /\ initi = 0
    /\ initinvoked = <<>>
    /\ nextInit = 1
    /\ lateInit = {}
    /\ rejectedInit = {}
    /\ initruns = 0
    /\ initended = "no"

\* ----------------------------------------------------- RegisterShutdown
\* A goroutine (a host thread, or the shutdown goroutine from inside a
\* callback) calls RegisterShutdown(sdf, opts...) and reaches Lock().
RegisterShutdownCall(p, optlists) ==
    /\ Alive
    /\ p \in Threads \cup {"bg"}
    /\ AtUserCode(p)
    /\ nextId <= MaxRegs
    /\ \E opts \in optlists :
         call' = [call EXCEPT ![p] = [NoCall EXCEPT
                                        !.op = "RegisterShutdown",
                                        !.f = nextId, !.opts = opts]]
    /\ pc' = [pc EXCEPT ![p] = "rs_lock"]
    /\ late' = IF finalized THEN late \cup {nextId} ELSE late
    /\ nextId' = nextId + 1
    /\ UNCHANGED <<downactions, finalized, downmutex, bgi, done, tout, ta,
                   exited, exitcode, stderr, sigreg, invoked, rejected,
                   returned, runs, winner,
                   running>>
    /\ UNCHANGED initvars

\* RegisterShutdown(sdf, opts...) with any list of options
RSCall(p) == RegisterShutdownCall(p, SeqsUpTo(Options, MaxOpts))

\* RegisterShutdown(sdf), as libraries call it from init() and from InitFuncs
RSCallPlain(p) == RegisterShutdownCall(p, {<<>>})

\* downmutex.Lock() returns and finalized is tested (shutdown.go:66-72);
\* when finalized the error is logged and the deferred Unlock runs.
RSLock(p) ==
    /\ Alive
    /\ pc[p] = "rs_lock"
    /\ LockFree(downmutex)
    /\ IF finalized
       THEN /\ rejected' = rejected \cup {call[p].f}
            /\ downmutex' = "none"
            /\ pc' = [pc EXCEPT ![p] = Home(p)]
            /\ call' = [call EXCEPT ![p] = NoCall]
       ELSE /\ downmutex' = p
            /\ pc' = [pc EXCEPT ![p] = "rs_body"]
            /\ UNCHANGED <<rejected, call>>
    /\ UNCHANGED <<downactions, finalized, bgi, done, tout, ta, exited,
                   exitcode, stderr, sigreg, invoked, nextId, late, returned,
                   runs, winner,
                   running>>
    /\ UNCHANGED initvars

\* the action is built and appended, the deferred Unlock runs
\* (shutdown.go:74-89)
RSBody(p) ==
    /\ Alive
    /\ pc[p] = "rs_body"
    /\ downactions' = AppendAction(downactions,
                                    NewAction(call[p].f, call[p].opts))
    /\ downmutex' = "none"
    /\ pc' = [pc EXCEPT ![p] = Home(p)]
    /\ call' = [call EXCEPT ![p] = NoCall]
    /\ UNCHANGED <<finalized, bgi, done, tout, ta, exited, exitcode, stderr,
                   sigreg, invoked, nextId, late, rejected, returned, runs,
                   winner,
                   running>>
    /\ UNCHANGED initvars

\* ------------------------------------------------ Shutdown, Abort, signals
ShutdownCall(p) ==
    /\ Alive
    /\ p \in Threads \cup {"bg"}
    /\ AtUserCode(p)
    /\ call' = [call EXCEPT ![p] = [NoCall EXCEPT
                                      !.op = "Shutdown",
                                      !.code = ExitCodeOf("Shutdown")]]
    /\ pc' = [pc EXCEPT ![p] = "sd_lock"]
    /\ UNCHANGED <<downactions, finalized, downmutex, bgi, done, tout, ta,
                   exited, exitcode, stderr, sigreg, invoked, nextId, late,
                   rejected, returned, runs, winner,
                   running>>
    /\ UNCHANGED initvars

AbortCall(p) ==
    /\ Alive
    /\ p \in Threads \cup {"bg"}
    /\ AtUserCode(p)
    /\ \E m \in Messages :
         call' = [call EXCEPT ![p] = [NoCall EXCEPT
                                        !.op = "Abort",
                                        !.code = ExitCodeOf("Abort"),
                                        !.mesg = m]]
    /\ pc' = [pc EXCEPT ![p] = "sd_lock"]
    /\ UNCHANGED <<downactions, finalized, downmutex, bgi, done, tout, ta,
                   exited, exitcode, stderr, sigreg, invoked, nextId, late,
                   rejected, returned, runs, winner,
                   running>>
    /\ UNCHANGED initvars

\* ShutdownOn(sigs...) installs the handler that calls Shutdown()
ShutdownOn(p) ==
    /\ Alive
    /\ p \in Threads
    /\ pc[p] = "idle"
    /\ ~sigreg
    /\ sigreg' = TRUE
    /\ UNCHANGED <<downactions, finalized, downmutex, pc, call, bgi, done,
                   tout, ta, exited, exitcode, stderr, invoked, nextId, late,
                   rejected, returned, runs, winner,
                   running>>
    /\ UNCHANGED initvars

\* one of the registered signals is delivered: the handler calls Shutdown()
SignalDelivered ==
    /\ Alive
    /\ sigreg
    /\ pc["sig"] = "idle"
    /\ call' = [call EXCEPT !["sig"] = [NoCall EXCEPT
                                          !.op = "Signal",
                                          !.code = ExitCodeOf("Shutdown")]]
    /\ pc' = [pc EXCEPT !["sig"] = "sd_lock"]
    /\ UNCHANGED <<downactions, finalized, downmutex, bgi, done, tout, ta,
                   exited, exitcode, stderr, sigreg, invoked, nextId, late,
                   rejected, returned, runs, winner,
                   running>>
    /\ UNCHANGED initvars

\* downmutex.Lock() returns and finalized is tested (shutdown.go:122-126);
\* when finalized the call returns and the deferred Unlock runs.
SDLock(p) ==
    /\ Alive
    /\ pc[p] = "sd_lock"
    /\ LockFree(downmutex)
    /\ IF finalized
       THEN /\ downmutex' = "none"
            /\ pc' = [pc EXCEPT ![p] = Home(p)]
            /\ call' = [call EXCEPT ![p] = NoCall]
            /\ returned' = returned \cup {p}
       ELSE /\ downmutex' = p
            /\ pc' = [pc EXCEPT ![p] = "sd_gate"]
            /\ UNCHANGED <<call, returned>>
    /\ UNCHANGED <<downactions, finalized, bgi, done, tout, ta, exited,
                   exitcode, stderr, sigreg, invoked, nextId, late, rejected,
                   runs, winner,
                   running>>
    /\ UNCHANGED initvars

\* finalized is set, the allowances are summed, the goroutine is started and
\* the timer is armed (shutdown.go:127-153); the mutex stays locked.
SDGate(p) ==
    /\ Alive
    /\ pc[p] = "sd_gate"
    /\ finalized' = TRUE
    /\ ta' = Budget(downactions)
    /\ done' = FALSE
    /\ tout' = "armed"
    /\ pc' = [pc EXCEPT ![p] = "sd_select", !["bg"] = "start"]
    /\ runs' = runs + 1
    /\ winner' = call[p]
    /\ UNCHANGED <<downactions, downmutex, call, bgi, exited, exitcode,
                   stderr, sigreg, invoked, nextId, late, rejected, returned,
                   running>>
    /\ UNCHANGED initvars

\* the goroutine starts: i := len(downactions) - 1
BGStart ==
    /\ Alive
    /\ pc["bg"] = "start"
    /\ bgi' = FirstIndex(downactions)
    /\ pc' = [pc EXCEPT !["bg"] = "loop"]
    /\ UNCHANGED <<downactions, finalized, downmutex, call, done, tout, ta,
                   exited, exitcode, stderr, sigreg, invoked, nextId, late,
                   rejected, returned, runs, winner,
                   running>>
    /\ UNCHANGED initvars

\* i >= 0: downactions[i].downFunc() is called
BGInvoke ==
    /\ Alive
    /\ pc["bg"] = "loop"
    /\ bgi >= 1
    /\ running' = running + 1
    /\ invoked' = Append(invoked, downactions[bgi].downFunc)
    /\ pc' = [pc EXCEPT !["bg"] = "in_cb"]
    /\ UNCHANGED <<downactions, finalized, downmutex, call, bgi, done, tout,
                   ta, exited, exitcode, stderr, sigreg, nextId, late,
                   rejected, returned, runs, winner>>
    /\ UNCHANGED initvars

\* the loop is over: the deferred close(done) runs
BGClose ==
    /\ Alive
    /\ pc["bg"] = "loop"
    /\ bgi < 1
    /\ done' = TRUE
    /\ pc' = [pc EXCEPT !["bg"] = "closed"]
    /\ UNCHANGED <<downactions, finalized, downmutex, call, bgi, tout, ta,
                   exited, exitcode, stderr, sigreg, invoked, nextId, late,
                   rejected, returned, runs, winner,
                   running>>
    /\ UNCHANGED initvars

\* the callback returns; i--
CBReturn ==
    /\ Alive
    /\ pc["bg"] = "in_cb"
    /\ bgi' = NextIndex(bgi)
    /\ running' = running - 1
    /\ pc' = [pc EXCEPT !["bg"] = "loop"]
    /\ UNCHANGED <<downactions, finalized, downmutex, call, done, tout, ta,
                   exited, exitcode, stderr, sigreg, invoked, nextId, late,
                   rejected, returned, runs, winner>>
    /\ UNCHANGED initvars

\* the callback never returns
CBHang ==
    /\ Alive
    /\ pc["bg"] = "in_cb"
    /\ pc' = [pc EXCEPT !["bg"] = "hung"]
    /\ UNCHANGED <<downactions, finalized, downmutex, call, bgi, done, tout,
                   ta, exited, exitcode, stderr, sigreg, invoked, nextId,
                   late, rejected, returned, runs, winner,
                   running>>
    /\ UNCHANGED initvars

\* the callback panics: nothing recovers a panic on this goroutine, the Go
\* runtime ends the process
CBPanic ==
    /\ Alive
    /\ pc["bg"] = "in_cb"
    /\ exited' = "crash"
    /\ UNCHANGED <<downactions, finalized, downmutex, pc, call, bgi, done,
                   tout, ta, exitcode, stderr, sigreg, invoked, nextId, late, rejected,
                   returned, runs, winner,
                   running>>
    /\ UNCHANGED initvars

\* the duration given to time.After has elapsed
TimerFire ==
    /\ Alive
    /\ tout = "armed"
    /\ tout' = "fired"
    /\ UNCHANGED <<downactions, finalized, downmutex, pc, call, bgi, done,
                   ta, exited, exitcode, stderr, sigreg, invoked, nextId,
                   late, rejected, returned, runs, winner,
                   running>>
    /\ UNCHANGED initvars

\* select { case <-done: case <-tout: }
SDSelect(p) ==
    /\ Alive
    /\ pc[p] = "sd_select"
    /\ SelectReady(done, tout)
    /\ pc' = [pc EXCEPT ![p] = "sd_mesg"]
    /\ UNCHANGED <<downactions, finalized, downmutex, call, bgi, done, tout,
                   ta, exited, exitcode, stderr, sigreg, invoked, nextId,
                   late, rejected, returned, runs, winner,
                   running>>
    /\ UNCHANGED initvars

\* if mesg != "" { fmt.Fprintln(os.Stderr, mesg) }
SDMesg(p) ==
    /\ Alive
    /\ pc[p] = "sd_mesg"
    /\ stderr' = IF call[p].mesg # "" THEN Append(stderr, call[p].mesg)
                 ELSE stderr
    /\ pc' = [pc EXCEPT ![p] = "sd_exit"]
    /\ UNCHANGED <<downactions, finalized, downmutex, call, bgi, done, tout,
                   ta, exited, exitcode, sigreg, invoked, nextId, late,
                   rejected, returned, runs, winner,
                   running>>
    /\ UNCHANGED initvars

\* os.Exit(code): the process ends, deferred calls do not run
SDExit(p) ==
    /\ Alive
    /\ pc[p] = "sd_exit"
    /\ exited' = "exit"
    /\ exitcode' = call[p].code
    /\ UNCHANGED <<downactions, finalized, downmutex, pc, call, bgi, done,
                   tout, ta, stderr, sigreg, invoked, nextId, late, rejected,
                   returned, runs, winner,
                   running>>
    /\ UNCHANGED initvars

\* --------------------------------------------------- RegisterInit, Init
\* A host goroutine calls RegisterInit(f) and reaches initmutex.Lock().
RICall(p) ==
    /\ Alive
    /\ p \in Threads
    /\ pc[p] \in {"idle", "in_f"}
    /\ nextInit <= MaxInitRegs
    /\ call' = [call EXCEPT ![p] = [NoCall EXCEPT !.op = "RegisterInit",
                                                  !.f = nextInit]]
    /\ pc' = [pc EXCEPT ![p] = "ri_lock"]
    /\ lateInit' = IF initended # "no" THEN lateInit \cup {nextInit}
                   ELSE lateInit
    /\ nextInit' = nextInit + 1
    /\ UNCHANGED <<downactions, finalized, downmutex, bgi, done, tout, ta,
                   exited, exitcode, stderr, sigreg, invoked, nextId, late,
                   rejected, returned, runs, winner, running>>
    /\ UNCHANGED <<initialized, initfuncs, initmutex, initpos, initi,
                   initinvoked, rejectedInit, initruns, initended>>

\* initmutex.Lock() returns; f is appended, or the error is logged when
\* initialized; the deferred Unlock runs (init.go:275-285)
RIBody(p) ==
    /\ Alive
    /\ pc[p] = "ri_lock"
    /\ LockFree(initmutex)
    /\ initfuncs' = RegisterInitOutcome(initialized, initfuncs, call[p].f)
    /\ rejectedInit' = IF initialized THEN rejectedInit \cup {call[p].f}
                       ELSE rejectedInit
    /\ pc' = [pc EXCEPT ![p] = Home(p)]
    /\ call' = [call EXCEPT ![p] = NoCall]
    /\ UNCHANGED <<downactions, finalized, downmutex, bgi, done, tout, ta,
                   exited, exitcode, stderr, sigreg, invoked, nextId, late,
                   rejected, returned, runs, winner, running>>
    /\ UNCHANGED <<initialized, initmutex, initpos, initi, initinvoked,
                   nextInit, lateInit, initruns, initended>>

\* A host goroutine calls Init(opts...) and reaches initmutex.Lock(); of the
\* options only StandardSignals and PIDFile (file written) matter here.
InitCall(p) ==
    /\ Alive
    /\ p \in Threads
    /\ pc[p] \in {"idle", "in_f"}
    /\ \E ss \in BOOLEAN, pf \in BOOLEAN :
         call' = [call EXCEPT ![p] = [NoCall EXCEPT !.op = "Init",
                                                    !.stdsigs = ss,
                                                    !.pidfile = pf]]
    /\ pc' = [pc EXCEPT ![p] = "in_lock"]
    /\ UNCHANGED <<downactions, finalized, downmutex, bgi, done, tout, ta,
                   exited, exitcode, stderr, sigreg, invoked, nextId, late,
                   rejected, returned, runs, winner, running>>
    /\ UNCHANGED initvars

\* initmutex.Lock() returns (init.go:207-223).  When initialized, Init
\* panics: the deferred functions set initialized and unlock.  Otherwise the
\* options are processed and setupStdSignals installs its handler.
InitLock(p) ==
    /\ Alive
    /\ pc[p] = "in_lock"
    /\ LockFree(initmutex)
    /\ IF InitCalledBefore(initialized)
       THEN /\ initialized' = TRUE
            /\ initmutex' = "none"
            /\ pc' = [pc EXCEPT ![p] = "in_panic"]
            /\ UNCHANGED <<sigreg, initpos, initi, initruns>>
       ELSE /\ initmutex' = p
            /\ sigreg' = (sigreg \/ call[p].stdsigs)
            /\ initpos' = IF call[p].pidfile THEN "pid" ELSE "flush"
            /\ initi' = 1
            /\ initruns' = initruns + 1
            /\ pc' = [pc EXCEPT ![p] = "in_init"]
            /\ UNCHANGED initialized
    /\ UNCHANGED <<downactions, finalized, downmutex, call, bgi, done, tout,
                   ta, exited, exitcode, stderr, invoked, nextId, late,
                   rejected, returned, runs, winner, running>>
    /\ UNCHANGED <<initfuncs, initinvoked, nextInit, lateInit, rejectedInit,
                   initended>>

\* Init calls RegisterShutdown: for the removal of the PID file from
\* writePIDFile (init.go:233-235, features.go:126), then for the log flush
\* (init.go:237)
InitRegister(p) ==
    /\ Alive
    /\ pc[p] = "in_init"
    /\ initpos \in {"pid", "flush"}
    /\ LET f == IF initpos = "pid" THEN PidFileFunc ELSE LogFlushFunc
       IN  /\ call' = [call EXCEPT ![p] = [NoCall EXCEPT
                                             !.op = "RegisterShutdown",
                                             !.f = f]]
           /\ late' = IF finalized THEN late \cup {f} ELSE late
    /\ initpos' = IF initpos = "pid" THEN "flush" ELSE "loop"
    /\ pc' = [pc EXCEPT ![p] = "rs_lock"]
    /\ UNCHANGED <<downactions, finalized, downmutex, bgi, done, tout, ta,
                   exited, exitcode, stderr, sigreg, invoked, nextId,
                   rejected, returned, runs, winner, running>>
    /\ UNCHANGED <<initialized, initfuncs, initmutex, initi, initinvoked,
                   nextInit, lateInit, rejectedInit, initruns, initended>>

\* for _, f := range initfuncs { f() }: the next InitFunc is called
InitInvoke(p) ==
    /\ Alive
    /\ pc[p] = "in_init"
    /\ initpos = "loop"
    /\ initi <= Len(initfuncs)
    /\ initinvoked' = Append(initinvoked, initfuncs[initi])
    /\ initpos' = "f"
    /\ pc' = [pc EXCEPT ![p] = "in_f"]
    /\ UNCHANGED <<downactions, finalized, downmutex, call, bgi, done, tout,
                   ta, exited, exitcode, stderr, sigreg, invoked, nextId,
                   late, rejected, returned, runs, winner, running>>
    /\ UNCHANGED <<initialized, initfuncs, initmutex, initi, nextInit,
                   lateInit, rejectedInit, initruns, initended>>

\* the InitFunc returns
IFReturn(p) ==
    /\ Alive
    /\ pc[p] = "in_f"
    /\ initi' = NextInitFunc(initi)
    /\ initpos' = "loop"
    /\ pc' = [pc EXCEPT ![p] = "in_init"]
    /\ UNCHANGED <<downactions, finalized, downmutex, call, bgi, done, tout,
                   ta, exited, exitcode, stderr, sigreg, invoked, nextId,
                   late, rejected, returned, runs, winner, running>>
    /\ UNCHANGED <<initialized, initfuncs, initmutex, initinvoked, nextInit,
                   lateInit, rejectedInit, initruns, initended>>

\* the InitFunc panics: the panic leaves Init, whose deferred functions set
\* initialized and unlock initmutex
IFPanic(p) ==
    /\ Alive
    /\ pc[p] = "in_f"
    /\ initialized' = TRUE
    /\ initmutex' = "none"
    /\ initpos' = "none"
    /\ initended' = "panicked"
    /\ pc' = [pc EXCEPT ![p] = "in_panic"]
    /\ UNCHANGED <<downactions, finalized, downmutex, call, bgi, done, tout,
                   ta, exited, exitcode, stderr, sigreg, invoked, nextId,
                   late, rejected, returned, runs, winner, running>>
    /\ UNCHANGED <<initfuncs, initi, initinvoked, nextInit, lateInit,
                   rejectedInit, initruns>>

\* the range loop is over: Init returns, its deferred functions set
\* initialized and unlock initmutex
InitReturn(p) ==
    /\ Alive
    /\ pc[p] = "in_init"
    /\ initpos = "loop"
    /\ initi > Len(initfuncs)
    /\ initialized' = TRUE
    /\ initmutex' = "none"
    /\ initpos' = "none"
    /\ initended' = "returned"
    /\ pc' = [pc EXCEPT ![p] = "idle"]
    /\ call' = [call EXCEPT ![p] = NoCall]
    /\ UNCHANGED <<downactions, finalized, downmutex, bgi, done, tout, ta,
                   exited, exitcode, stderr, sigreg, invoked, nextId, late,
                   rejected, returned, runs, winner, running>>
    /\ UNCHANGED <<initfuncs, initi, initinvoked, nextInit, lateInit,
                   rejectedInit, initruns>>

\* the caller of Init recovers the panic and goes on
PanicRecovered(p) ==
    /\ Alive
    /\ pc[p] = "in_panic"
    /\ pc' = [pc EXCEPT ![p] = "idle"]
    /\ call' = [call EXCEPT ![p] = NoCall]
    /\ UNCHANGED <<downactions, finalized, downmutex, bgi, done, tout, ta,
                   exited, exitcode, stderr, sigreg, invoked, nextId, late,
                   rejected, returned, runs, winner, running>>
    /\ UNCHANGED initvars

\* nothing recovers the panic: the Go runtime ends the process
PanicCrash(p) ==
    /\ Alive
    /\ pc[p] = "in_panic"
    /\ exited' = "crash"
    /\ UNCHANGED <<downactions, finalized, downmutex, pc, call, bgi, done,
                   tout, ta, exitcode, stderr, sigreg, invoked, nextId, late,
                   rejected, returned, runs, winner, running>>
    /\ UNCHANGED initvars


Next ==
    \/ \E p \in Procs : RSCall(p)
    \/ \E p \in Procs : RSLock(p)
    \/ \E p \in Procs : RSBody(p)
    \/ \E p \in Procs : ShutdownCall(p)
    \/ \E p \in Procs : AbortCall(p)
    \/ \E p \in Procs : ShutdownOn(p)
    \/ SignalDelivered
    \/ \E p \in Procs : SDLock(p)
    \/ \E p \in Procs : SDGate(p)
    \/ BGStart
    \/ BGInvoke
    \/ BGClose
    \/ CBReturn
    \/ CBHang
    \/ CBPanic
    \/ TimerFire
    \/ \E p \in Procs : SDSelect(p)
    \/ \E p \in Procs : SDMesg(p)
    \/ \E p \in Procs : SDExit(p)

\* The termination half of the package: a program that registers shutdown
\* actions with any options and terminates, without calling Init.
Spec == Init /\ [][Next]_vars

\* The Go scheduler runs every runnable goroutine and the runtime fires every
\* armed timer; a callback is under no obligation to return.
Fairness ==
    /\ WF_vars(TimerFire)
    /\ WF_vars(BGStart)
    /\ \A p \in Procs : WF_vars(RSBody(p))
    /\ \A p \in Procs : WF_vars(SDLock(p))
    /\ \A p \in Procs : WF_vars(SDGate(p))
    /\ \A p \in Procs : WF_vars(SDSelect(p))
    /\ \A p \in Procs : WF_vars(SDMesg(p))
    /\ \A p \in Procs : WF_vars(SDExit(p))

LiveSpec == Init /\ [][Next]_vars /\ Fairness

\* The whole package: Init and RegisterInit together with the termination
\* half; shutdown actions are registered without options.
FullNext ==
    \/ \E p \in Procs : RSCallPlain(p)
    \/ \E p \in Procs : RSLock(p)
    \/ \E p \in Procs : RSBody(p)
    \/ \E p \in Procs : ShutdownCall(p)
    \/ \E p \in Procs : AbortCall(p)
    \/ \E p \in Procs : ShutdownOn(p)
    \/ SignalDelivered
    \/ \E p \in Procs : SDLock(p)
    \/ \E p \in Procs : SDGate(p)
    \/ BGStart
    \/ BGInvoke
    \/ BGClose
    \/ CBReturn
    \/ CBHang
    \/ CBPanic
    \/ TimerFire
    \/ \E p \in Procs : SDSelect(p)
    \/ \E p \in Procs : SDMesg(p)
    \/ \E p \in Procs : SDExit(p)
    \/ \E p \in Procs : RICall(p)
    \/ \E p \in Procs : RIBody(p)
    \/ \E p \in Procs : InitCall(p)
    \/ \E p \in Procs : InitLock(p)
    \/ \E p \in Procs : InitRegister(p)
    \/ \E p \in Procs : InitInvoke(p)
    \/ \E p \in Procs : IFReturn(p)
    \/ \E p \in Procs : IFPanic(p)
    \/ \E p \in Procs : InitReturn(p)
    \/ \E p \in Procs : PanicRecovered(p)
    \/ \E p \in Procs : PanicCrash(p)

FullSpec == Init /\ [][FullNext]_vars

FullLiveSpec == Init /\ [][FullNext]_vars /\ Fairness

TypeOK ==
    /\ finalized \in BOOLEAN
    /\ downmutex \in Procs \cup {"none"}
    /\ Len(downactions) <= MaxRegs + 2
    /\ tout \in {"unset", "armed", "fired"}
    /\ exited \in {"no", "exit", "crash"}

\* ------------------------------------------------------------ properties
\* mode of the call that set finalized (a signal handler calls Shutdown)
RunMode == IF winner.op = "Abort" THEN "Abort" ELSE "Shutdown"

\* the scope of action a includes mode m
Applicable(a, m) == IF m = "Abort" THEN a.onAbort ELSE a.onShutdown

\* the registered action whose downFunc is id
ActionOf(id) ==
    CHOOSE a \in {downactions[k] : k \in 1..Len(downactions)} : a.downFunc = id

ApplicableActions ==
    LET Test(a) == Applicable(a, RunMode) IN SelectSeq(downactions, Test)

ApplicableInvoked ==
    LET Test(id) == Applicable(ActionOf(id), RunMode) IN SelectSeq(invoked, Test)

IsRegistered(id) == \E k \in 1..Len(downactions) : downactions[k].downFunc = id

WasInvoked(id) == \E k \in 1..Len(invoked) : invoked[k] = id

\* C1: scope correctness. Every callback invoked by a termination run belongs
\* to an action whose scope includes the mode of the run (an OnAbort-only
\* action is not invoked on Shutdown, an OnShutdown-only action is not invoked
\* on Abort), and once the walk is over every action applicable to both modes
\* has been invoked.
C1_ScopeCorrect ==
    /\ \A k \in 1..Len(invoked) :
         IsRegistered(invoked[k]) => Applicable(ActionOf(invoked[k]), RunMode)
    /\ done => \A k \in 1..Len(downactions) :
                 (downactions[k].onAbort /\ downactions[k].onShutdown)
                    => WasInvoked(downactions[k].downFunc)

\* C2: reverse order. The applicable callbacks invoked so far are, in order,
\* the applicable registered actions taken from the last registered to the
\* first, and when the walk is over all of them have been invoked.
C2_ReverseOrder ==
    LET app == ApplicableActions
        inv == ApplicableInvoked
    IN  /\ Len(inv) <= Len(app)
        /\ \A k \in 1..Len(inv) :
             k <= Len(app) => inv[k] = app[Len(app) + 1 - k].downFunc
        /\ done => Len(inv) = Len(app)

\* a walk over two applicable actions is over: the second registered ran first
C2_Witness ==
    /\ done
    /\ Len(ApplicableInvoked) >= 2
    /\ ApplicableInvoked[1] > ApplicableInvoked[2]

\* C3: idempotent termination. finalized is set at most once, whatever the
\* number of Shutdown, Abort and signal-handler calls, and no callback is
\* invoked twice.
C3_Idempotent ==
    /\ runs <= 1
    /\ \A j \in 1..Len(invoked) : \A k \in 1..Len(invoked) :
         j # k => invoked[j] # invoked[k]

\* a second termination call was made while the first run invoked callbacks
C3_Witness ==
    /\ runs = 1
    /\ Len(invoked) >= 1
    /\ \E p \in Procs : pc[p] = "sd_lock"

\* C4: budget over the applicable subset only. The duration given to the
\* timer is S + S/5 where S sums the allowances of the actions applicable to
\* the mode of the run.
C4_BudgetApplicableOnly ==
    tout # "unset" => ta = Fudge(SumAllowances(ApplicableActions))

\* C5: bounded wait. Once finalized is set the process ends, whether or not
\* the callbacks return; and when os.Exit is reached before the walk is over
\* the timer has fired.
C5_BoundedWait ==
    /\ finalized ~> (exited # "no")
    /\ [](exited = "exit" /\ ~done => tout = "fired")

\* os.Exit was reached while a callback hangs and an earlier registered one
\* was never started
C5_Witness ==
    /\ exited = "exit"
    /\ pc["bg"] = "hung"
    /\ bgi >= 2
    /\ Len(invoked) < Len(downactions)

\* C6: late registration is rejected. Once finalized is set the list of
\* actions never changes, and a callback passed to RegisterShutdown when
\* finalized was already set is never invoked.
C6_LateRejected ==
    /\ [][finalized => downactions' = downactions]_vars
    /\ [](\A k \in 1..Len(invoked) : invoked[k] \notin late)

\* RegisterShutdown was called after finalized was set, callbacks were invoked
\* and the process ended through os.Exit
C6_Witness ==
    /\ late # {}
    /\ Len(invoked) >= 1
    /\ exited = "exit"

\* C7: a RegisterShutdown call made while a termination run is in progress
\* does not block: whenever such a call waits in Lock() the mutex is free, so
\* that it goes on to observe finalized, report and return.
C7_RegisterDoesNotBlock ==
    \A p \in Procs :
        (Alive /\ finalized /\ pc[p] = "rs_lock") => LockFree(downmutex)

\* C8: a Shutdown or Abort call that did not win the gate does not block:
\* whenever such a call waits in Lock() after finalized was set the mutex is
\* free, so that it goes on to observe finalized and return.
C8_LoserDoesNotBlock ==
    \A p \in Procs :
        (Alive /\ finalized /\ pc[p] = "sd_lock") => LockFree(downmutex)

\* C9: the mutex is not held while a termination callback executes nor while
\* the caller waits in the select.
C9_LockNotHeldAcrossRun ==
    (Alive /\ (pc["bg"] \in {"in_cb", "hung"}
               \/ \E p \in Procs : pc[p] = "sd_select"))
        => downmutex = "none"

\* C10: exit code. os.Exit is called with 0 when the run was requested by
\* Shutdown (directly or by the signal handler) and with 1 when it was
\* requested by Abort.
C10_ExitCode ==
    exited = "exit" =>
        exitcode = (IF winner.op = "Abort" THEN 1 ELSE 0)

\* os.Exit was reached at the end of a run requested by Abort
C10_Witness ==
    /\ exited = "exit"
    /\ winner.op = "Abort"
    /\ exitcode = 1

\* what shutdown() writes to os.Stderr for message m
Written(m) == IF m # "" THEN <<m>> ELSE <<>>

\* C11: exactly one request proceeds. finalized is set at most once; the
\* code and the message of the process exit are those of the request that
\* set it, and nothing else (no message of a discarded Abort) is ever
\* written to standard error.
C11_OneRequestProceeds ==
    /\ runs <= 1
    /\ (finalized <=> runs = 1)
    /\ \A k \in 1..Len(stderr) : runs = 1 /\ stderr[k] = winner.mesg
    /\ exited = "exit" =>
         /\ runs = 1
         /\ exitcode = winner.code
         /\ stderr = Written(winner.mesg)

\* the process exited on a Shutdown request while an Abort request with a
\* message is discarded (still waiting in Lock())
C11_Witness ==
    /\ exited = "exit"
    /\ winner.mesg = ""
    /\ \E p \in Procs : pc[p] = "sd_lock" /\ call[p].mesg # ""

\* C12: the Abort message. Standard error holds at most one line; it is
\* written only after the wait ended (done closed or timer fired), it is the
\* non-empty message of the request, the writer's next step is os.Exit, and
\* at os.Exit an empty message has produced no output.
C12_MessageBeforeExit ==
    /\ [](Len(stderr) <= 1)
    /\ [](stderr # <<>> =>
            /\ done \/ tout = "fired"
            /\ winner.mesg # ""
            /\ stderr = <<winner.mesg>>)
    /\ [](exited = "exit" => stderr = Written(winner.mesg))
    /\ [][stderr' # stderr =>
            \E p \in Procs : pc[p] = "sd_mesg" /\ pc'[p] = "sd_exit"]_vars

\* an Abort with a message ended the process after the timer fired on an
\* unfinished walk
C12_Witness ==
    /\ exited = "exit"
    /\ stderr = <<"fatal">>
    /\ ~done

NoRepeat(seq) ==
    \A j \in 1..Len(seq) : \A k \in 1..Len(seq) : j # k => seq[j] # seq[k]

C14_StartupOrder ==
    /\ Len(initinvoked) <= Len(initfuncs)
    /\ \A k \in 1..Len(initinvoked) :
         k <= Len(initfuncs) => initinvoked[k] = initfuncs[k]
    /\ initpos = "f" => (initended = "no" /\ initmutex \in Threads)
    /\ initended = "returned" => initinvoked = initfuncs

\* Init returned after invoking two InitFuncs
C14_Witness ==
    /\ initended = "returned"
    /\ Len(initinvoked) >= 2

InitFuncRegistered(id) == \E k \in 1..Len(initfuncs) : initfuncs[k] = id

InitFuncInvoked(id) == \E k \in 1..Len(initinvoked) : initinvoked[k] = id

\* C15: RegisterInit after Init is rejected. Once initialized is set the
\* list of InitFuncs never changes; a function passed to RegisterInit after
\* Init ended is neither registered nor invoked; and such a call, when it
\* leaves Lock(), logs the error and returns to its caller without panic.
C15_LateInitRejected ==
    /\ [][initialized => initfuncs' = initfuncs]_vars
    /\ [](\A id \in lateInit :
            ~InitFuncRegistered(id) /\ ~InitFuncInvoked(id))
    /\ [][\A p \in Procs :
            (pc[p] = "ri_lock" /\ pc'[p] # "ri_lock"
                 /\ call[p].f \in lateInit)
                => /\ pc'[p] = "idle"
                   /\ call[p].f \in rejectedInit'
                   /\ exited' = "no"]_vars

\* a RegisterInit call made after Init returned was rejected and returned
C15_Witness ==
    /\ initended = "returned"
    /\ lateInit \cap rejectedInit # {}
    /\ pc["t1"] = "idle"

HasOption(opts, kind) == \E k \in 1..Len(opts) : opts[k].kind = kind

\* the duration of the last TimeAllowance of opts, 100ms when there is none
StatedAllowance(opts) ==
    IF HasOption(opts, "TimeAllowance")
    THEN LET last == CHOOSE k \in 1..Len(opts) :
                        /\ opts[k].kind = "TimeAllowance"
                        /\ \A j \in (k + 1)..Len(opts) :
                             opts[j].kind # "TimeAllowance"
         IN  opts[last].dur
    ELSE DefaultAllowance

\* sa is what the claim says RegisterShutdown(f, opts...) stores
StoredAsStated(sa, f, opts) ==
    LET s == HasOption(opts, "OnShutdown")
        a == HasOption(opts, "OnAbort")
    IN  /\ sa.downFunc = f
        /\ sa.allowance = StatedAllowance(opts)
        /\ sa.onShutdown = (s \/ ~a)
        /\ sa.onAbort = (a \/ ~s)

\* C16: registration defaults. Whenever RegisterShutdown appends, the new
\* last action has allowance 100ms unless TimeAllowance(d) was given (then
\* d), applies to both modes when neither OnShutdown nor OnAbort was given
\* and to exactly the modes given otherwise; TimeAllowance leaves the scope
\* as the other options determine it.
C16_RegistrationDefaults ==
    [][Len(downactions') > Len(downactions) =>
          /\ downmutex \in Procs
          /\ Len(downactions') = Len(downactions) + 1
          /\ StoredAsStated(downactions'[Len(downactions')],
                            call[downmutex].f, call[downmutex].opts)]_vars

\* a call without options stored (100ms, both modes) and a call with
\* OnShutdown and TimeAllowance(7) stored (7ns, Shutdown only)
C16_Witness ==
    /\ \E k \in 1..Len(downactions) :
         /\ downactions[k].allowance = DefaultAllowance
         /\ downactions[k].onShutdown /\ downactions[k].onAbort
    /\ \E k \in 1..Len(downactions) :
         /\ downactions[k].allowance \in Durations
         /\ downactions[k].onShutdown /\ ~downactions[k].onAbort

\* C17: no early exit. The caller of shutdown() is past the select, and
\* os.Exit is performed, only when the done channel is closed or the timer
\* has fired.
C17_NoEarlyExit ==
    /\ \A p \in Procs :
         pc[p] \in {"sd_mesg", "sd_exit"} => (done \/ tout = "fired")
    /\ exited = "exit" => (done \/ tout = "fired")

\* os.Exit was performed after the walk had invoked every callback, the
\* timer not having fired
C17_Witness ==
    /\ exited = "exit"
    /\ done
    /\ tout = "armed"
    /\ Len(invoked) >= 2

\* C18: termination callbacks never run concurrently. At most one callback
\* has been called and not yet returned, it runs on the goroutine started by
\* shutdown(), and at most one such goroutine is ever started.
C18_OneCallbackAtATime ==
    /\ running <= 1
    /\ running = 1 => pc["bg"] \notin {"none", "start", "loop", "closed"}
    /\ runs <= 1
    /\ pc["bg"] # "none" => runs = 1

\* a second callback is executing after the first one returned
C18_Witness ==
    /\ running = 1
    /\ Len(invoked) >= 2

\* seq2 is seq1 with exactly one entry added at the end
AppendedOne(seq1, seq2) ==
    /\ Len(seq2) = Len(seq1) + 1
    /\ SubSeq(seq2, 1, Len(seq1)) = seq1

\* C19: the registry is append-only and never reset. Every step leaves each
\* list unchanged or adds exactly one entry at its end; a RegisterShutdown
\* that gets past the finalized test, and a RegisterInit that finds
\* initialized unset, add their own function; finalized and initialized
\* never go back to false.
C19_AppendOnly ==
    [][/\ downactions' = downactions \/ AppendedOne(downactions, downactions')
       /\ initfuncs' = initfuncs \/ AppendedOne(initfuncs, initfuncs')
       /\ \A p \in Procs :
            (pc[p] = "rs_body" /\ pc'[p] # "rs_body")
                => /\ AppendedOne(downactions, downactions')
                   /\ downactions'[Len(downactions')].downFunc = call[p].f
       /\ \A p \in Procs :
            (pc[p] = "ri_lock" /\ pc'[p] # "ri_lock" /\ ~initialized)
                => /\ AppendedOne(initfuncs, initfuncs')
                   /\ initfuncs'[Len(initfuncs')] = call[p].f
       /\ finalized => finalized'
       /\ initialized => initialized']_vars

\* both lists hold several entries and both flags are set
C19_Witness ==
    /\ Len(downactions) >= 3
    /\ Len(initfuncs) >= 2
    /\ finalized
    /\ initialized

\* a registered signal has been delivered and its handler is about to call
\* Shutdown(), no termination run having started and no host goroutine being
\* inside Shutdown() or Abort()
FirstDelivery ==
    /\ pc["sig"] = "sd_lock"
    /\ ~finalized
    /\ \A p \in Threads : call[p].op \notin {"Shutdown", "Abort"}

\* the process has ended by os.Exit(code), or by the runtime on a panic
EndedWith(code) ==
    \/ exited = "crash"
    \/ exited = "exit" /\ exitcode = code

\* C20 as stated: the first delivery of a registered signal while no
\* termination is in progress leads to process exit with code 0.
C20_SignalExitsZero ==
    FirstDelivery ~> EndedWith(0)

\* C20, amended: the first delivery of a registered signal while no
\* termination is in progress makes the handler call Shutdown(), and the
\* process then ends with the exit code of the call that set finalized: 0
\* when it is the handler's call, 1 when an Abort() made after the delivery
\* got downmutex first; a panic ends the process by the runtime instead.
\* A signal delivered while a run is in progress or finished invokes no
\* callback again: its call never gets past the lock, one run is started at
\* most and no callback is invoked twice.
C20_SignalBridge ==
    /\ FirstDelivery
         ~> EndedWith(IF winner.op = "Abort" THEN 1 ELSE 0)
    /\ [](exited = "exit" /\ winner.op = "Signal"
             => exitcode = 0)
    /\ [](runs <= 1 /\ NoRepeat(invoked))
    /\ [][(pc["sig"] = "sd_lock" /\ finalized /\ winner.op # "Signal")
             => pc'["sig"] \in {"sd_lock", "idle"}]_vars

\* the handler's Shutdown() ran the callbacks and the process exited with 0
C20_Witness ==
    /\ exited = "exit"
    /\ winner.op = "Signal"
    /\ exitcode = 0
    /\ Len(invoked) >= 1

\* the index in initfuncs of the InitFunc whose panic ended Init
FailedAt == initi

\* C21: a startup failure propagates. The step in which an InitFunc panics
\* takes the caller out of Init with the panic (nothing in Init recovers
\* it), and from then on the InitFuncs invoked are exactly those up to and
\* including the failing one: none registered after it is ever invoked.
C21_FailurePropagates ==
    /\ [][\A p \in Threads :
            (pc[p] = "in_f" /\ pc'[p] \notin {"in_f", "rs_lock", "ri_lock",
                                              "in_lock", "sd_lock",
                                              "in_init"})
                => /\ pc'[p] = "in_panic"
                   /\ initmutex' = "none"
                   /\ initended' = "panicked"
                   /\ initinvoked' = initinvoked]_vars
    /\ [](initended = "panicked"
             => /\ FailedAt <= Len(initfuncs)
                /\ initinvoked = SubSeq(initfuncs, 1, FailedAt)
                /\ \A k \in (FailedAt + 1)..Len(initfuncs) :
                     ~InitFuncInvoked(initfuncs[k]))

\* the first of two InitFuncs panicked, the caller recovered the panic and
\* called Init again
C21_Witness ==
    /\ initended = "panicked"
    /\ Len(initfuncs) >= 2
    /\ FailedAt = 1
    /\ \E p \in Threads : pc[p] = "in_panic" /\ call[p].op = "Init"

\* the goroutine whose shutdown() call set finalized is past the gate and
\* still holds downmutex
WinnerHoldsLock ==
    /\ downmutex \in Procs
    /\ pc[downmutex] \in {"sd_select", "sd_mesg", "sd_exit"}
    /\ call[downmutex] = winner

\* C22: in every state where finalized is true, downmutex is held by the
\* caller that set it, up to and after the process exit; so no caller ever
\* executes the 'already finalized' branch of RegisterShutdown (an error is
\* logged) or of shutdown (plain return), and no caller in either function
\* gets the lock once finalized is set.
C22_LockHeldOnceFinalized ==
    /\ [](finalized => WinnerHoldsLock)
    /\ [](rejected = {} /\ returned = {})
    /\ [][finalized
            => \A p \in Procs :
                 pc[p] \in {"rs_lock", "sd_lock"} => pc'[p] = pc[p]]_vars

\* a termination run is in progress while a RegisterShutdown call and the
\* signal handler's Shutdown call both wait for the lock
C22_Witness ==
    /\ finalized
    /\ \E p \in Procs : pc[p] = "rs_lock"
    /\ \E p \in Procs : pc[p] = "sd_lock"
    /\ Len(invoked) >= 1

\* the shutdown goroutine is inside a callback that has called
\* RegisterShutdown, Shutdown or Abort and waits in downmutex.Lock()
CallbackInLock == pc["bg"] \in {"rs_lock", "sd_lock"}

\* C23: a termination callback that calls RegisterShutdown, Shutdown or Abort
\* never returns from that call: the walk stays in that callback and done is
\* never closed, nothing is registered or written for the nested call, and
\* the process still exits, through the expiry of the timer and with the
\* exit code of the call that set finalized.
C23_NestedCallBlocks ==
    /\ [][CallbackInLock
            => /\ pc'["bg"] = pc["bg"]
               /\ invoked' = invoked
               /\ downactions' = downactions]_vars
    /\ [](CallbackInLock
            => /\ ~done
               /\ finalized
               /\ downmutex \notin {"bg", "none"}
               /\ exited = "exit"
                    => /\ tout = "fired"
                       /\ exitcode = (IF winner.op = "Abort" THEN 1 ELSE 0)
                       /\ stderr = Written(winner.mesg))
    /\ CallbackInLock ~> (exited = "exit" /\ tout = "fired")

\* the process exited with the code of the Shutdown call after the timer
\* fired, the first callback invoked being blocked in its own call of Abort
C23_Witness ==
    /\ pc["bg"] = "sd_lock"
    /\ call["bg"].op = "Abort"
    /\ winner.op = "Shutdown"
    /\ Len(invoked) = 1
    /\ Len(downactions) >= 2
    /\ exited = "exit"
    /\ exitcode = 0

\* goroutine p is inside Init, between the return of initmutex.Lock() and
\* the deferred Unlock
InsideInit(p) == initpos # "none" /\ initmutex = p

RegPos(id) ==
    CHOOSE k \in 1..Len(downactions) : downactions[k].downFunc = id

\* C25: Init registers the log flush after its other registrations and
\* before it runs any InitFunc. The removal of the PID file is registered
\* only while the log flush is not; the log flush is registered while no
\* InitFunc has been invoked and takes the place after every action
\* registered so far; an action registered from inside an InitFunc takes a
\* place after the log flush. Hence a termination run invokes, before the
\* log flush, exactly the invoked actions registered after it, and after the
\* log flush those registered before it.
C25_LogFlushPlacement ==
    /\ [][(~IsRegistered(PidFileFunc) /\ IsRegistered(PidFileFunc)')
            => ~IsRegistered(LogFlushFunc)]_vars
    /\ [][(~IsRegistered(LogFlushFunc) /\ IsRegistered(LogFlushFunc)')
            => /\ initinvoked = <<>>
               /\ \E p \in Threads : InsideInit(p) /\ pc[p] = "rs_body"
               /\ RegPos(LogFlushFunc)' = Len(downactions')
               /\ Len(downactions') = Len(downactions) + 1]_vars
    /\ [][\A p \in Threads :
            (InsideInit(p) /\ initpos = "f" /\ pc[p] = "rs_body"
               /\ pc'[p] # "rs_body")
                => /\ IsRegistered(LogFlushFunc)
                   /\ \E k \in 1..Len(downactions') :
                        /\ downactions'[k].downFunc = call[p].f
                        /\ k > RegPos(LogFlushFunc)']_vars
    /\ [](\A i \in 1..Len(invoked) : \A j \in 1..Len(invoked) :
            (invoked[i] = LogFlushFunc /\ j # i)
                => (j < i <=> RegPos(invoked[j]) > RegPos(LogFlushFunc)))

\* Init is still inside an InitFunc; the run invoked the action that the
\* InitFunc registered, then the log flush, then an action registered before
\* Init
C25_Witness ==
    /\ initended = "no"
    /\ initpos = "f"
    /\ \E i \in 2..(Len(invoked) - 1) : invoked[i] = LogFlushFunc

\* goroutine p leaves Init in this step, by return or by panic
LeavesInit(p) ==
    \/ pc[p] = "in_lock" /\ pc'[p] # "in_lock" /\ initmutex' # p
    \/ InsideInit(p) /\ initmutex' # p

\* C26: initialized is set whenever Init is left: by return, by the panic of
\* an InitFunc, or by the panic of a repeated call. So once an Init has
\* failed, every later Init call that gets the lock panics without invoking
\* an InitFunc, and every later RegisterInit call that gets the lock is
\* rejected and leaves initfuncs unchanged.
C26_InitializedOnAnyExit ==
    /\ [][\A p \in Threads : LeavesInit(p) => initialized']_vars
    /\ [](initended # "no" => initialized)
    /\ [][\A p \in Threads :
            (initended = "panicked" /\ pc[p] = "in_lock"
               /\ pc'[p] # "in_lock")
                => /\ pc'[p] = "in_panic"
                   /\ initinvoked' = initinvoked
                   /\ initruns' = initruns]_vars
    /\ [][\A p \in Threads :
            (initended = "panicked" /\ pc[p] = "ri_lock"
               /\ pc'[p] # "ri_lock")
                => /\ initfuncs' = initfuncs
                   /\ call[p].f \in rejectedInit'
                   /\ pc'[p] = "idle"]_vars

\* an InitFunc panicked and the panic was recovered; a RegisterInit call
\* made afterwards was rejected and a second Init call has panicked
C26_Witness ==
    /\ initended = "panicked"
    /\ rejectedInit # {}
    /\ \E p \in Threads : pc[p] = "in_panic" /\ call[p].op = "Init"
    /\ initruns = 1

\* Init has not been called, or is still between Lock() and its return
InitNotDone == initended = "no"

\* goroutine p is in shutdown() waiting for downmutex, no run having started
RequestPending(p) == pc[p] = "sd_lock" /\ ~finalized

\* C27: termination does not wait for Init. A Shutdown or Abort request
\* pending while Init has not been called or is still running gets past the
\* gate as soon as downmutex is free, whatever the state of initmutex and
\* initialized; the run walks the actions registered up to the gate, the
\* list not changing any more; and such a request always leads to the end
\* of the process, Init having ended or not.
C27_TerminationIgnoresInit ==
    /\ [](\A p \in Procs :
            (RequestPending(p) /\ Alive /\ downmutex = "none")
                => ENABLED SDLock(p))
    /\ [][finalized => downactions' = downactions]_vars
    /\ [](\A k \in 1..Len(invoked) : IsRegistered(invoked[k]))
    /\ ((\E p \in Procs : RequestPending(p)) /\ InitNotDone) ~> ~Alive

\* the process exited after a run that invoked actions while Init was still
\* inside an InitFunc
C27_Witness ==
    /\ exited = "exit"
    /\ InitNotDone
    /\ initpos = "f"
    /\ Len(invoked) >= 2

====
